---- MODULE Spec2Model ----
\* Per-path state of quinn-proto (connection/paths.rs): the MtuDiscovery probe
\* state machine and the RttEstimator, modelled as state machines driven by
\* the calls the owning connection makes.
EXTENDS Integers, Sequences, FiniteSets, TLC

\* ---------------------------------------------------------------- Option<T>
\* Option<T>: None is the empty tuple, Some(v) the one-element tuple.
None == <<>>

Some(v) == <<v>>

is_some(o) == o # None

is_none(o) == o = None

unwrap(o) == o[1]

\* ---------------------------------------------------------------- constants
LEVELS == <<1350, 1400, 1450, 1500>>

MAX_PROBES == 3

\* MAX_PLPMTU taken to be the last level less the V4 header.
MAX_PLPMTU_LastLevel == 1500 - 20

MAX_PLPMTU == 65535

BASE_PLPMTU == 1280

\* ---------------------------------------------------------------- bounds
\* Packet numbers handed to poll_transmit/acked/lost are 0..MaxPacketNumber.
MaxPacketNumber == 2

PacketNumbers == 0..MaxPacketNumber

\* SocketAddr is consumed only through its address family.
Remotes == {"V4", "V6"}

\* A Duration is a whole number of ticks, 0..MaxDuration: MaxDuration stands
\* for Duration::MAX (u64::MAX seconds and 999_999_999 nanoseconds) and
\* MaxSubsec for the largest sub-second part a Duration can carry.
MaxDuration == 2000

MaxSubsec == 1

\* The samples and ack delays update is called with: every duration up to
\* MaxSample, three larger ones, and the two ends of the top second.
MaxSample == 2

RttSamples ==
    (0..MaxSample) \cup {100, 140, 400, MaxDuration - MaxSubsec, MaxDuration}

AckDelays == (0..MaxSample) \cup {40, MaxDuration}

\* update is called at most MaxUpdates times.
MaxUpdates == 3

\* crate::TIMER_GRANULARITY, the floor of the probe timeout, in ticks.
TIMER_GRANULARITY == 5

\* ---------------------------------------------------------------- state
VARIABLES
    \* MtuDiscovery
    header_size, current, probe_number, probe_size, probe_count, phase,
    \* a panic raised by Option::unwrap on None
    panicked,
    \* the last call made: its name, the tuple of its arguments, its return
    \* value and the MtuDiscovery fields as they were when it was made
    call, arg, ret, before,
    \* RttEstimator
    latest, smoothed, var, min,
    \* the RttEstimator fields as they were when update was last called, the
    \* number of update calls and the least rtt argument given so far
    rtt_before, updates, least_sample,
    \* PathData: the ECN flag of the path and, when the last call was
    \* from_previous, the PathData it returned and the path it was given as it
    \* was at that call
    sending_ecn, made, prev,
    \* history: the sizes poll_transmit has returned, the matching losses seen
    \* in total and at the probe size now selected, current as it was when
    \* the first of the latter was reported, and the matching acks seen
    returned, total_losses, size_losses, streak_base, total_acks

mtud == <<header_size, current, probe_number, probe_size, probe_count, phase>>

obs == <<call, arg, ret, before>>

hist == <<returned, total_losses, size_losses, streak_base, total_acks>>

rtte == <<latest, smoothed, var, min>>

rtt_obs == <<rtt_before, updates, least_sample>>

path == <<sending_ecn, made, prev>>

vars == <<mtud, panicked, obs, hist, rtte, rtt_obs, path>>

\* A call other than from_previous returns no PathData.
NothingMade == made' = None /\ prev' = None

\* The fields of the MtuDiscovery as one record.
Fields ==
    [header_size |-> header_size, current |-> current,
     probe_number |-> probe_number, probe_size |-> probe_size,
     probe_count |-> probe_count, phase |-> phase]

\* ---------------------------------------------------------------- MtuDiscovery
HeaderSize(remote) == IF remote = "V4" THEN 20 ELSE 48

MtuDiscovery_new(remote) ==
    [header_size |-> HeaderSize(remote), current |-> BASE_PLPMTU,
     probe_number |-> None, probe_size |-> None,
     probe_count |-> 0, phase |-> "Searching"]

\* Larger with the header size left out of the comparison.
Larger_NoHeader(x, cur, hdr) == x > cur

\* Larger with >= for >.
Larger_OrEqual(x, cur, hdr) == x >= cur + hdr

\* The predicate of LEVELS.iter().find(..) in poll_transmit. The u16 sum
\* current + header_size is at most 1500 in every reachable state, and the
\* difference probe_size - header_size in acked at least 1302, so neither
\* leaves the u16 range.
Larger(x, cur, hdr) == x > cur + hdr

\* LEVELS.iter().find(|&&x| x > current + header_size), scanning from index i.
RECURSIVE FindFrom(_, _, _)
FindFrom(i, cur, hdr) ==
    IF i > Len(LEVELS) THEN None
    ELSE IF Larger(LEVELS[i], cur, hdr) THEN Some(LEVELS[i])
    ELSE FindFrom(i + 1, cur, hdr)

find(cur, hdr) == FindFrom(1, cur, hdr)

\* PollBlocked without the test for an outstanding probe.
PollBlocked_IgnoresProbe == phase = "Complete"

\* PollBlocked without the test for Phase::Complete.
PollBlocked_IgnoresPhase == is_some(probe_number)

\* PollBlocked with the test for an outstanding probe turned round.
PollBlocked_Inverted == is_none(probe_number) \/ phase = "Complete"

\* The early returns of poll_transmit.
PollBlocked == is_some(probe_number) \/ phase = "Complete"

poll_transmit(next_packet_number) ==
    /\ ~panicked
    /\ UNCHANGED <<rtte, rtt_obs, sending_ecn>>
    /\ NothingMade
    /\ call' = "poll_transmit"
    /\ arg' = <<next_packet_number>>
    /\ before' = Fields
    /\ UNCHANGED <<header_size, current, probe_count, panicked>>
    /\ UNCHANGED <<total_losses, streak_base, total_acks>>
    /\ IF PollBlocked
       THEN /\ ret' = None
            /\ UNCHANGED <<probe_number, probe_size, phase, returned, size_losses>>
       ELSE IF is_none(probe_size) /\ is_none(find(current, header_size))
       THEN /\ phase' = "Complete"
            /\ ret' = None
            /\ UNCHANGED <<probe_number, probe_size, returned, size_losses>>
       ELSE /\ probe_size' = IF is_none(probe_size)
                             THEN find(current, header_size)
                             ELSE probe_size
            /\ probe_number' = Some(next_packet_number)
            /\ ret' = probe_size'
            /\ returned' = Append(returned, unwrap(probe_size'))
            /\ size_losses' = IF is_none(probe_size) THEN 0 ELSE size_losses
            /\ UNCHANGED phase

\* Matches comparing by order: any number up to the outstanding probe's.
Matches_ByOrder(number) == is_some(probe_number) /\ number <= unwrap(probe_number)

\* The guard shared by acked and lost: the number is the outstanding probe's.
Matches(number) == probe_number = Some(number)

acked(number) ==
    /\ ~panicked
    /\ UNCHANGED <<rtte, rtt_obs, sending_ecn>>
    /\ NothingMade
    /\ call' = "acked"
    /\ arg' = <<number>>
    /\ ret' = None
    /\ before' = Fields
    /\ UNCHANGED <<header_size, probe_count, returned, total_losses, streak_base>>
    /\ IF ~Matches(number)
       THEN UNCHANGED <<current, probe_number, probe_size, phase, panicked,
                        size_losses, total_acks>>
       ELSE IF is_none(probe_size)
       THEN \* probe_size.take().unwrap() on None panics, probe_number cleared
            /\ probe_number' = None
            /\ panicked' = TRUE
            /\ UNCHANGED <<current, probe_size, phase, size_losses, total_acks>>
       ELSE /\ probe_number' = None
            /\ probe_size' = None
            /\ current' = unwrap(probe_size) - header_size
            /\ phase' = IF current' = MAX_PLPMTU THEN "Complete" ELSE phase
            /\ size_losses' = 0
            /\ total_acks' = total_acks + 1
            /\ UNCHANGED panicked

\* GiveUp one loss late.
GiveUp_Late(count) == count > MAX_PROBES

\* GiveUp with the comparison turned round.
GiveUp_Inverted(count) == count < MAX_PROBES

\* The test that abandons the probe size: probe_count == MAX_PROBES.
GiveUp(count) == count = MAX_PROBES

\* lost clearing probe_number only while the probe size is kept.
lost_KeepsNumber(number) ==
    /\ ~panicked
    /\ UNCHANGED <<rtte, rtt_obs, sending_ecn>>
    /\ NothingMade
    /\ call' = "lost"
    /\ arg' = <<number>>
    /\ ret' = None
    /\ before' = Fields
    /\ UNCHANGED <<header_size, current, panicked, returned, total_acks>>
    /\ IF ~Matches(number)
       THEN UNCHANGED <<probe_number, probe_size, probe_count, phase,
                        total_losses, size_losses, streak_base>>
       ELSE /\ probe_count' = probe_count + 1
            /\ IF GiveUp(probe_count')
               THEN probe_size' = None /\ phase' = "Complete"
                    /\ UNCHANGED probe_number
               ELSE probe_number' = None /\ UNCHANGED <<probe_size, phase>>
            /\ total_losses' = total_losses + 1
            /\ size_losses' = size_losses + 1
            /\ streak_base' = IF size_losses = 0 THEN current ELSE streak_base

lost(number) ==
    /\ ~panicked
    /\ UNCHANGED <<rtte, rtt_obs, sending_ecn>>
    /\ NothingMade
    /\ call' = "lost"
    /\ arg' = <<number>>
    /\ ret' = None
    /\ before' = Fields
    /\ UNCHANGED <<header_size, current, panicked, returned, total_acks>>
    /\ IF ~Matches(number)
       THEN UNCHANGED <<probe_number, probe_size, probe_count, phase,
                        total_losses, size_losses, streak_base>>
       ELSE /\ probe_number' = None
            /\ probe_count' = probe_count + 1
            /\ IF GiveUp(probe_count')
               THEN probe_size' = None /\ phase' = "Complete"
               ELSE UNCHANGED <<probe_size, phase>>
            /\ total_losses' = total_losses + 1
            /\ size_losses' = size_losses + 1
            /\ streak_base' = IF size_losses = 0 THEN current ELSE streak_base

\* ---------------------------------------------------------------- RttEstimator
\* The fields of the RttEstimator as one record.
RttFields == [latest |-> latest, smoothed |-> smoothed, var |-> var, min |-> min]

\* Duration::new(u64::max_value(), 0): u64::MAX whole seconds.
DurationOfMaxSecs == MaxDuration - MaxSubsec

RttEstimator_new ==
    [latest |-> 0, smoothed |-> None, var |-> 0, min |-> DurationOfMaxSecs]

cmp_min(a, b) == IF a <= b THEN a ELSE b

cmp_max(a, b) == IF a >= b THEN a ELSE b

\* Duration arithmetic panics when its result is not a Duration.
Overflows(d) == d > MaxDuration

\* self.min after line 64, from self.min and the rtt argument.
NewMin(old_min, rtt) == cmp_min(old_min, rtt)

\* Adjusted trusting any ack delay below the sample, whatever the floor.
Adjusted_NoFloor(rtt, new_min, ack_delay) ==
    IF rtt > ack_delay THEN rtt - ack_delay ELSE rtt

\* self.latest after lines 62-68.
Adjusted(rtt, new_min, ack_delay) ==
    IF rtt - new_min > ack_delay THEN rtt - ack_delay ELSE rtt

\* var_sample of lines 71-75.
VarSample(srtt, sample) ==
    IF srtt > sample THEN srtt - sample ELSE sample - srtt

\* FirstVar taking a quarter of the sample.
FirstVar_Quarter(sample) == sample \div 4

\* self.var after the first sample, line 80.
FirstVar(sample) == sample \div 2

\* The sum line 76 divides by 4.
VarSum(old_var, var_sample) == 3 * old_var + var_sample

\* NewSmoothed weighting the sample 1/4 against 3/4.
NewSmoothed_Quarter(srtt, sample) == (3 * srtt + sample) \div 4

\* The sum line 77 divides by 8.
SmoothedSum(srtt, sample) == 7 * srtt + sample

\* self.smoothed after line 77.
NewSmoothed(srtt, sample) == SmoothedSum(srtt, sample) \div 8

update(ack_delay, rtt) ==
    /\ ~panicked
    /\ updates < MaxUpdates
    /\ updates' = updates + 1
    /\ UNCHANGED <<mtud, hist, ret, before, sending_ecn>>
    /\ NothingMade
    /\ call' = "update"
    /\ arg' = <<ack_delay, rtt>>
    /\ rtt_before' = RttFields
    /\ least_sample' = IF is_none(least_sample) \/ rtt < unwrap(least_sample)
                       THEN Some(rtt) ELSE least_sample
    /\ min' = NewMin(min, rtt)
    /\ latest' = Adjusted(rtt, min', ack_delay)
    /\ IF is_none(smoothed)
       THEN /\ smoothed' = Some(latest')
            /\ var' = FirstVar(latest')
            /\ UNCHANGED panicked
       ELSE LET srtt == unwrap(smoothed)
                var_sum == VarSum(var, VarSample(srtt, latest'))
                srtt_sum == SmoothedSum(srtt, latest')
            IN  IF Overflows(3 * var) \/ Overflows(var_sum)
                THEN \* line 76 panics
                     /\ panicked' = TRUE
                     /\ UNCHANGED <<var, smoothed>>
                ELSE IF Overflows(7 * srtt) \/ Overflows(srtt_sum)
                THEN \* line 77 panics, var already assigned
                     /\ panicked' = TRUE
                     /\ var' = var_sum \div 4
                     /\ UNCHANGED smoothed
                ELSE /\ var' = var_sum \div 4
                     /\ smoothed' = Some(NewSmoothed(srtt, latest'))
                     /\ UNCHANGED panicked

\* get(): the result of the call in the present state.
get == IF is_none(smoothed) THEN latest ELSE cmp_max(unwrap(smoothed), latest)

\* The Duration pto_base adds to srtt, before the multiplication and the
\* addition are checked for overflow.
PtoPad(v) == cmp_max(4 * v, TIMER_GRANULARITY)

\* pto_base(): whether the call panics in the present state, and the value it
\* returns if it does not.
pto_base ==
    IF is_none(smoothed)
    THEN [panics |-> FALSE, value |-> None]
    ELSE IF Overflows(4 * var) \/ Overflows(unwrap(smoothed) + PtoPad(var))
    THEN [panics |-> TRUE, value |-> None]
    ELSE [panics |-> FALSE, value |-> Some(unwrap(smoothed) + PtoPad(var))]

\* ---------------------------------------------------------------- PathData
\* The path as one record; the congestion controller is an opaque handle and
\* is left out.
PathFields == [rtt |-> RttFields, sending_ecn |-> sending_ecn, mtud |-> Fields]

\* The connection clearing the public sending_ecn field of its path.
disable_ecn ==
    /\ ~panicked
    /\ sending_ecn
    /\ sending_ecn' = FALSE
    /\ call' = "disable_ecn"
    /\ arg' = None
    /\ ret' = None
    /\ before' = Fields
    /\ NothingMade
    /\ UNCHANGED <<mtud, panicked, hist, rtte, rtt_obs>>

\* from_previous taking the ECN flag over from prev.
from_previous_KeepsEcn(remote) ==
    /\ ~panicked
    /\ made' = Some([remote |-> remote,
                     rtt |-> RttFields,
                     sending_ecn |-> sending_ecn,
                     mtud |-> MtuDiscovery_new(remote)])
    /\ prev' = Some(PathFields)
    /\ call' = "from_previous"
    /\ arg' = <<remote>>
    /\ ret' = None
    /\ before' = Fields
    /\ UNCHANGED <<mtud, panicked, hist, rtte, rtt_obs, sending_ecn>>

\* PathData::from_previous(remote, prev), prev being the path of this state: it
\* is borrowed immutably and no field of it is written.
from_previous(remote) ==
    /\ ~panicked
    /\ made' = Some([remote |-> remote,
                     rtt |-> RttFields,
                     sending_ecn |-> TRUE,
                     mtud |-> MtuDiscovery_new(remote)])
    /\ prev' = Some(PathFields)
    /\ call' = "from_previous"
    /\ arg' = <<remote>>
    /\ ret' = None
    /\ before' = Fields
    /\ UNCHANGED <<mtud, panicked, hist, rtte, rtt_obs, sending_ecn>>

\* ---------------------------------------------------------------- specification
Init ==
    /\ \E remote \in Remotes :
         /\ header_size = MtuDiscovery_new(remote).header_size
         /\ current = MtuDiscovery_new(remote).current
         /\ probe_number = MtuDiscovery_new(remote).probe_number
         /\ probe_size = MtuDiscovery_new(remote).probe_size
         /\ probe_count = MtuDiscovery_new(remote).probe_count
         /\ phase = MtuDiscovery_new(remote).phase
         /\ before = MtuDiscovery_new(remote)
    /\ panicked = FALSE
    /\ call = "new"
    /\ arg = None
    /\ ret = None
    /\ returned = <<>>
    /\ total_losses = 0
    /\ size_losses = 0
    /\ streak_base = BASE_PLPMTU
    /\ total_acks = 0
    /\ latest = RttEstimator_new.latest
    /\ smoothed = RttEstimator_new.smoothed
    /\ var = RttEstimator_new.var
    /\ min = RttEstimator_new.min
    /\ rtt_before = RttEstimator_new
    /\ updates = 0
    /\ least_sample = None
    /\ sending_ecn = TRUE
    /\ made = None
    /\ prev = None

Next ==
    \E n \in PacketNumbers :
        \/ poll_transmit(n)
        \/ acked(n)
        \/ lost(n)

Spec == Init /\ [][Next]_vars

\* The RttEstimator alone, fed samples by the connection.
NextRtt == \E ack_delay \in AckDelays, rtt \in RttSamples : update(ack_delay, rtt)

SpecRtt == Init /\ [][NextRtt]_vars

\* The connection keeps asking for a probe and reports every probe it sent
\* as acknowledged or lost.
Poll == \E n \in PacketNumbers : poll_transmit(n)

Report == \E n \in PacketNumbers : Matches(n) /\ (acked(n) \/ lost(n))

\* Fairness is asked only of the calls that change a field: a poll_transmit
\* that is not turned away, and the report of the outstanding probe.
SpecLive == Init /\ [][Next]_vars /\ WF_mtud(Poll) /\ WF_mtud(Report)

\* An estimator in mid-connection, in ticks of half a millisecond: a fresh
\* estimator given the samples 93 ms, 141 ms, 107 ms, 100 ms and 100 ms with no
\* ack delay has smoothed = 100 ms, var = 20 ms and min = 93 ms.
Ms(n) == 2 * n

WarmEstimator ==
    [latest |-> Ms(100), smoothed |-> Some(Ms(100)), var |-> Ms(20), min |-> Ms(93)]

InitStep ==
    /\ \E remote \in Remotes :
         /\ header_size = MtuDiscovery_new(remote).header_size
         /\ current = MtuDiscovery_new(remote).current
         /\ probe_number = MtuDiscovery_new(remote).probe_number
         /\ probe_size = MtuDiscovery_new(remote).probe_size
         /\ probe_count = MtuDiscovery_new(remote).probe_count
         /\ phase = MtuDiscovery_new(remote).phase
         /\ before = MtuDiscovery_new(remote)
    /\ panicked = FALSE
    /\ call = "update"
    /\ arg = <<0, Ms(100)>>
    /\ ret = None
    /\ returned = <<>>
    /\ total_losses = 0
    /\ size_losses = 0
    /\ streak_base = BASE_PLPMTU
    /\ total_acks = 0
    /\ latest = WarmEstimator.latest
    /\ smoothed = WarmEstimator.smoothed
    /\ var = WarmEstimator.var
    /\ min = WarmEstimator.min
    /\ rtt_before = [WarmEstimator EXCEPT !.var = Ms(27)]
    /\ updates = 0
    /\ least_sample = Some(Ms(93))
    /\ sending_ecn = TRUE
    /\ made = None
    /\ prev = None

\* The samples and ack delays given to the estimator in mid-connection.
StepSamples == {0, Ms(93), Ms(100), Ms(140), Ms(180), MaxDuration}

StepDelays == {0, Ms(40), MaxDuration}

NextStep ==
    \E ack_delay \in StepDelays, rtt \in StepSamples : update(ack_delay, rtt)

\* The RttEstimator from mid-connection on; updates counts the calls made
\* since.
SpecStep == InitStep /\ [][NextStep]_vars

\* One path driven by the connection and migrated from: probes, samples, the
\* ECN flag and from_previous, over fewer packet numbers and durations.
PathPacketNumbers == {0, 1}

PathSamples == {1, 100, MaxDuration}

PathDelays == {0}

NextPath ==
    \/ \E n \in PathPacketNumbers :
          \/ poll_transmit(n)
          \/ acked(n)
          \/ lost(n)
    \/ \E ack_delay \in PathDelays, rtt \in PathSamples : update(ack_delay, rtt)
    \/ disable_ecn
    \/ \E remote \in Remotes : from_previous(remote)

SpecPath == Init /\ [][NextPath]_vars

\* ---------------------------------------------------------------- observations
\* The last call was acked/lost and its number was the outstanding probe's.
Matched == call \in {"acked", "lost"} /\ before.probe_number = Some(arg[1])

\* The last call was acked/lost and its number was not the outstanding probe's.
Unmatched == call \in {"acked", "lost"} /\ before.probe_number # Some(arg[1])

\* The arguments of the last call, when it was update(ack_delay, rtt).
ArgAckDelay == arg[1]

ArgRtt == arg[2]

\* The last call was a poll_transmit that had to select a probe size.
PolledSelecting ==
    /\ call = "poll_transmit"
    /\ is_none(before.probe_number)
    /\ before.phase = "Searching"
    /\ is_none(before.probe_size)

\* ---------------------------------------------------------------- C1
\* C1: a poll_transmit made while a probe is outstanding returns None and
\* changes no field, so at most one probe is in flight.
C1_OneProbeInFlight ==
    (call = "poll_transmit" /\ is_some(before.probe_number))
        => (ret = None /\ Fields = before)

\* A poll_transmit was made while the first probe was still outstanding.
C1_Witness ==
    /\ call = "poll_transmit"
    /\ is_some(before.probe_number)
    /\ ret = None
    /\ returned = <<1350>>

\* ---------------------------------------------------------------- C2
\* C2: acked(n) and lost(n) with n different from the outstanding probe number
\* (or with no probe outstanding) leave every field as it was.
C2_UnmatchedIsNoOp == Unmatched => (Fields = before /\ ~panicked)

\* acked was called with a number other than the outstanding probe's, after an
\* earlier probe had already been declared lost.
C2_Witness ==
    /\ call = "acked"
    /\ is_some(before.probe_number)
    /\ before.probe_number # Some(arg[1])
    /\ total_losses > 0

\* ---------------------------------------------------------------- C3
\* C3: after a matching acked(n), probe_count is 0.
C3_AckResetsProbeCount == (call = "acked" /\ Matched) => probe_count = 0

\* ---------------------------------------------------------------- C4
\* C4: while a probe size is selected, probe_count is the number of matching
\* losses seen at that size, and a matching lost moves phase to Complete only
\* when 3 probes of the size it abandons were lost.
C4_ProbeCountIsLossesAtSize ==
    /\ is_some(probe_size) => probe_count = size_losses
    /\ (call = "lost" /\ Matched /\ phase = "Complete") => size_losses = 3

\* ---------------------------------------------------------------- C5
\* C5: once phase is Complete it stays Complete, poll_transmit returns None and
\* no probe number is recorded.
C5_CompleteIsAbsorbing ==
    /\ phase = "Complete" => is_none(probe_number)
    /\ before.phase = "Complete" =>
          /\ phase = "Complete"
          /\ Fields = before
          /\ call = "poll_transmit" => ret = None

\* poll_transmit was called after the table was exhausted.
C5_Witness ==
    /\ before.phase = "Complete"
    /\ call = "poll_transmit"
    /\ current = 1500 - header_size
    /\ total_losses = 0

\* ---------------------------------------------------------------- C6
\* C6: once three probes of one size were lost with no ack in between, phase is
\* Complete, probe_size and probe_number are cleared, and current is what it
\* was before the first of those losses.
C6_ThreeLossesComplete ==
    size_losses = 3 =>
        /\ phase = "Complete"
        /\ is_none(probe_size)
        /\ is_none(probe_number)
        /\ current = streak_base

\* The third loss at 1400, after 1350 was acknowledged, has just been reported.
C6_Witness ==
    /\ call = "lost"
    /\ Matched
    /\ size_losses = 3
    /\ before.probe_size = Some(1400)

\* ---------------------------------------------------------------- C7
\* C7: current never decreases: poll_transmit and lost leave it alone and a
\* matching acked raises it to probe_size - header_size.
C7_CurrentNeverDecreases ==
    /\ current >= before.current
    /\ call \in {"poll_transmit", "lost"} => current = before.current
    /\ (call = "acked" /\ Matched /\ is_some(before.probe_size)) =>
          /\ current = unwrap(before.probe_size) - header_size
          /\ current > before.current

\* A second probe size was acknowledged on a V6 path.
C7_Witness ==
    /\ call = "acked"
    /\ Matched
    /\ header_size = 48
    /\ before.current = 1302
    /\ current = 1352

\* ---------------------------------------------------------------- C8
\* C8: an outstanding probe number always has a probe size, and the unwrap in
\* acked never panics.
C8_NumberImpliesSize ==
    /\ is_some(probe_number) => is_some(probe_size)
    /\ ~panicked

\* A matching acked took the probe size of a probe that was re-sent after a loss.
C8_Witness ==
    /\ call = "acked"
    /\ Matched
    /\ is_some(before.probe_size)
    /\ before.probe_count > 0

\* ---------------------------------------------------------------- C9
\* The index of the first entry of LEVELS above bound, 0 if there is none.
FirstAbove(bound) ==
    IF \E i \in 1..4 : LEVELS[i] > bound
    THEN CHOOSE i \in 1..4 :
            /\ LEVELS[i] > bound
            /\ \A j \in 1..(i - 1) : LEVELS[j] <= bound
    ELSE 0

\* C9: a poll_transmit that selects a size takes the first table entry above
\* current + header_size; with every probe acknowledged the sizes returned are
\* 1350, 1400, 1450, 1500 in order, current following each, and the poll after
\* the last ack sets phase to Complete and returns None.
C9_ProbeSequence ==
    /\ PolledSelecting =>
          IF FirstAbove(before.current + header_size) = 0
          THEN ret = None /\ phase = "Complete" /\ is_none(probe_size)
          ELSE /\ ret = Some(LEVELS[FirstAbove(before.current + header_size)])
               /\ probe_size = ret
               /\ probe_number = Some(arg[1])
    /\ total_losses = 0 =>
          /\ Len(returned) <= 4
          /\ returned = SubSeq(<<1350, 1400, 1450, 1500>>, 1, Len(returned))
          /\ LET acks == IF is_some(probe_number)
                         THEN Len(returned) - 1 ELSE Len(returned)
             IN  current = IF acks = 0 THEN 1280
                           ELSE returned[acks] - header_size
          /\ (header_size = 20 /\ returned = <<1350>> /\ is_none(probe_number))
                => current = 1330
          /\ phase = "Complete" => (Len(returned) = 4 /\ is_none(probe_number))
          /\ (PolledSelecting /\ before.current = 1500 - header_size) =>
                (phase = "Complete" /\ ret = None /\ Len(returned) = 4)

\* All four sizes were acknowledged and the next poll_transmit found no larger
\* entry.
C9_Witness ==
    /\ total_losses = 0
    /\ returned = <<1350, 1400, 1450, 1500>>
    /\ PolledSelecting
    /\ phase = "Complete"
    /\ ret = None

\* ---------------------------------------------------------------- C10
\* C10: min never rises, is never negative, and after each update it is the
\* least of the rtt arguments given so far, whatever the ack delays.
C10_MinIsLeastSample ==
    /\ min >= 0
    /\ min <= rtt_before.min
    /\ call = "update" => min = unwrap(least_sample)

\* ---------------------------------------------------------------- C11
\* C11: update subtracts ack_delay from the sample exactly when rtt - min
\* exceeds it, min being already lowered by the sample; neither subtraction
\* goes below zero, and latest is at least min afterwards.
C11_AckDelayWhenPlausible ==
    call = "update" =>
        /\ ArgRtt >= min
        /\ latest = IF ArgRtt - min > ArgAckDelay
                    THEN ArgRtt - ArgAckDelay
                    ELSE ArgRtt
        /\ latest >= 0
        /\ latest >= min

\* A later sample stood far enough above the floor for its ack delay to be
\* subtracted.
C11_Witness ==
    /\ call = "update"
    /\ updates > 1
    /\ ArgAckDelay > 0
    /\ ArgRtt - min > ArgAckDelay
    /\ latest = ArgRtt - ArgAckDelay

\* ---------------------------------------------------------------- C12
\* C12: the first update of a fresh estimator leaves smoothed = latest and
\* var = latest / 2, whatever ack_delay and rtt are.
C12_FirstUpdate ==
    updates = 1 =>
        /\ ~panicked
        /\ smoothed = Some(latest)
        /\ var = latest \div 2

\* The first update was given an ack delay larger than its rtt.
C12_Witness ==
    /\ updates = 1
    /\ is_none(rtt_before.smoothed)
    /\ ArgAckDelay > ArgRtt
    /\ latest > 0

\* ---------------------------------------------------------------- C13
\* The last update found smoothed = 100 ms and var = 20 ms and its sample,
\* adjusted for ack delay, was 140 ms.
C13_Case ==
    /\ call = "update"
    /\ rtt_before.smoothed = Some(Ms(100))
    /\ rtt_before.var = Ms(20)
    /\ latest = Ms(140)

\* C13 as stated: from smoothed = 100 ms and var = 20 ms a sample of 140 ms
\* gives var = 25 ms and smoothed = 117.5 ms.
C13_AsStated ==
    C13_Case => (var = Ms(25) /\ smoothed = Some(Ms(117) + 1))

\* C13 as amended: from smoothed = 100 ms and var = 20 ms a sample of 140 ms
\* gives var = 25 ms and smoothed = 105 ms.
C13_Amended ==
    C13_Case => (~panicked /\ var = Ms(25) /\ smoothed = Some(Ms(105)))

\* The 140 ms sample was a 180 ms rtt less an ack delay of 40 ms.
C13_Witness ==
    /\ C13_Case
    /\ arg = <<Ms(40), Ms(180)>>

\* ---------------------------------------------------------------- C14
\* C14: pto_base() is None exactly while update was never called, smoothed
\* being None just then, and after any update it returns
\* smoothed + max(4 * var, TIMER_GRANULARITY), at least TIMER_GRANULARITY.
C14_PtoBase ==
    ~panicked =>
        /\ is_none(smoothed) <=> updates = 0
        /\ updates = 0 => pto_base = [panics |-> FALSE, value |-> None]
        /\ updates > 0 =>
              /\ ~pto_base.panics
              /\ pto_base.value =
                    Some(unwrap(smoothed)
                         + (IF 4 * var >= TIMER_GRANULARITY
                            THEN 4 * var ELSE TIMER_GRANULARITY))
              /\ unwrap(pto_base.value) >= TIMER_GRANULARITY

\* ---------------------------------------------------------------- C15
\* C15: no update panics on overflow and neither get() nor pto_base() would
\* in the state an update leaves.
C15_Total ==
    /\ ~panicked
    /\ get \in 0..MaxDuration
    /\ ~pto_base.panics

\* ---------------------------------------------------------------- C16
\* C16: from_previous(remote, prev) returns a path with prev's RTT estimator
\* fields, a fresh MtuDiscovery for the new remote's address family and ECN
\* enabled, and leaves prev as it was.
C16_FromPrevious ==
    call = "from_previous" =>
        /\ unwrap(made).rtt = unwrap(prev).rtt
        /\ unwrap(made).mtud =
              [header_size |-> IF arg = <<"V4">> THEN 20 ELSE 48,
               current |-> 1280,
               probe_number |-> None,
               probe_size |-> None,
               probe_count |-> 0,
               phase |-> "Searching"]
        /\ unwrap(made).sending_ecn = TRUE
        /\ <<unwrap(made).remote>> = arg
        /\ PathFields = unwrap(prev)

\* A V6 path was made from a V4 path whose discovery was Complete after a
\* loss, whose ECN flag was cleared and whose estimator had taken samples.
C16_Witness ==
    /\ call = "from_previous"
    /\ arg = <<"V6">>
    /\ unwrap(prev).mtud.header_size = 20
    /\ unwrap(prev).mtud.phase = "Complete"
    /\ unwrap(prev).mtud.probe_count = 3
    /\ ~unwrap(prev).sending_ecn
    /\ is_some(unwrap(prev).rtt.smoothed)

\* ---------------------------------------------------------------- C17
\* C17: a matching lost that leaves probe_count below 3 keeps probe_size and
\* phase Searching, and the next poll_transmit(p) returns that same size and
\* records p.
C17_LostProbeResent ==
    /\ (call = "lost" /\ Matched /\ probe_count < 3) =>
          /\ is_some(probe_size)
          /\ probe_size = before.probe_size
          /\ phase = "Searching"
          /\ is_none(probe_number)
    /\ (/\ call = "poll_transmit"
        /\ is_none(before.probe_number)
        /\ is_some(before.probe_size)) =>
          /\ before.probe_count \in 1..2
          /\ ret = before.probe_size
          /\ probe_size = before.probe_size
          /\ probe_number = Some(arg[1])
          /\ current = before.current

\* 1400 was lost twice and has been returned a third time.
C17_Witness ==
    /\ call = "poll_transmit"
    /\ is_none(before.probe_number)
    /\ before.probe_size = Some(1400)
    /\ before.probe_count = 2
    /\ ret = Some(1400)
    /\ size_losses = 2

\* ---------------------------------------------------------------- C18
\* C18: while the connection keeps polling and reports every probe, phase
\* eventually is Complete.
C18_Terminates == <>(phase = "Complete")

\* Discovery ended by a third loss after some probes were acknowledged.
C18_Witness ==
    /\ phase = "Complete"
    /\ total_losses = 3
    /\ total_acks > 0

\* ---------------------------------------------------------------- C19
\* C19: current is 1280 or a table entry less header_size and never
\* MAX_PLPMTU; acked never changes phase, and phase becomes Complete only in
\* a poll_transmit that finds the table exhausted or in the lost that brings
\* probe_count to 3; a selected probe_size is a table entry above
\* current + header_size.
C19_Shape ==
    /\ current = 1280
          \/ \E i \in 1..4 : current = LEVELS[i] - header_size
    /\ current <= 1500 - header_size
    /\ current # 65535
    /\ call = "acked" => phase = before.phase
    /\ (before.phase = "Searching" /\ phase = "Complete") =>
          \/ /\ PolledSelecting
             /\ \A i \in 1..4 : LEVELS[i] <= before.current + header_size
          \/ /\ call = "lost"
             /\ Matched
             /\ probe_count = 3
    /\ is_some(probe_size) =>
          /\ \E i \in 1..4 : probe_size = Some(LEVELS[i])
          /\ unwrap(probe_size) > current + header_size

\* The last table entry was acknowledged on a V4 path and phase is still
\* Searching.
C19_Witness ==
    /\ call = "acked"
    /\ Matched
    /\ header_size = 20
    /\ current = 1480
    /\ phase = "Searching"

====
